---- MODULE Spec2Model ----
(***************************************************************************)
(* Model of shared/src/types/io.rs: the Io trait with its default bodies,  *)
(* the helpers prompt_aux and read_aux, and the display!/display_line!/    *)
(* edisplay!/prompt! macros.                                               *)
(*                                                                         *)
(* Streams carry bytes.  The byte alphabet has an ASCII letter, the line   *)
(* terminator, and the lead and continuation byte of one two-byte          *)
(* character, so that "valid text" (UTF-8) is a real condition on a byte   *)
(* sequence and a short write or a short read can split a character.       *)
(*                                                                         *)
(* The standard library calls the source makes are modelled by what they   *)
(* do: write!/writeln!/print! go through write_fmt and write_all (a loop   *)
(* over write() that tries again after ErrorKind::Interrupted), stdout is  *)
(* line buffered, read_to_string drains the reader and validates the       *)
(* bytes.  An explicit sink is an object of the caller, distinct from the  *)
(* process-wide streams.  A panic ends the run.                            *)
(***************************************************************************)
EXTENDS Integers, Sequences, FiniteSets, TLC

VARIABLES out, err, stdin, sink, rd, status, pc, last, ret, trace, n

vars == <<out, err, stdin, sink, rd, status, pc, last, ret, trace, n>>

(***************************************************************************)
(* Bounds                                                                  *)
(***************************************************************************)
\* number of calls the host application makes in one run
MaxCalls == 2
\* most Err(Interrupted) answers a device gives in a row
MaxIntr == 1

(***************************************************************************)
(* Bytes and text                                                          *)
(***************************************************************************)
NL == "NL"
Bytes == {"a", NL, "L", "C"}

Take(s, k) == SubSeq(s, 1, k)
Drop(s, k) == SubSeq(s, k + 1, Len(s))
Min2(x, y) == IF x <= y THEN x ELSE y

\* str::from_utf8 as read_to_string applies it: "a" and NL are one-byte
\* characters, "L" must be followed by "C", a lone "C" is invalid.
RECURSIVE IsText(_)
IsText(s) ==
    IF s = <<>> THEN TRUE
    ELSE IF s[1] \in {"a", NL} THEN IsText(Tail(s))
    ELSE IF s[1] = "L" THEN Len(s) >= 2 /\ s[2] = "C" /\ IsText(Drop(s, 2))
    ELSE FALSE

\* the values an `impl AsRef<str>` / `&str` argument takes
Texts == {<<>>, <<"a">>, <<"a", NL>>, <<NL, "a">>, <<"L", "C">>}
\* the contents a reader holds: texts, and byte sequences that are not text
Inputs == {<<>>, <<"a", NL>>, <<"L", "C">>, <<"L">>, <<"a", "C">>}

HasNL(s) == \E i \in 1..Len(s) : s[i] = NL

(***************************************************************************)
(* Devices.  One call's device behaviour is env = [cap, chunk, intr]:      *)
(* cap is how many more bytes the device takes before it rejects a write   *)
(* (NoLimit: it takes everything), chunk the most it takes in one write()  *)
(* call, intr how many times it first answers Err(Interrupted).  A device  *)
(* either takes whole buffers at once or takes one byte at a time after    *)
(* interrupting.                                                           *)
(***************************************************************************)
NoLimit == 0 - 1
Caps == {NoLimit, 0, 1}
Paces == {[chunk |-> 3, intr |-> 0], [chunk |-> 1, intr |-> MaxIntr]}
Envs == {[cap |-> c, chunk |-> p.chunk, intr |-> p.intr] : c \in Caps, p \in Paces}

\* Mutant of raw_write_all: a single write() call, its short count ignored
\* and an interruption taken for a failure.
raw_write_once(dev, data, env) ==
    IF data = <<>> THEN [dev |-> dev, rest |-> <<>>, ok |-> TRUE, env |-> env]
    ELSE IF env.intr > 0 \/ env.cap = 0
        THEN [dev |-> dev, rest |-> data, ok |-> FALSE, env |-> env]
    ELSE LET lim == IF env.cap = NoLimit THEN Len(data) ELSE Min2(env.cap, Len(data))
             k   == Min2(env.chunk, lim)
         IN  [dev |-> dev \o Take(data, k), rest |-> <<>>, ok |-> TRUE,
              env |-> [env EXCEPT !.cap = IF env.cap = NoLimit THEN NoLimit
                                           ELSE env.cap - k]]

\* std::io::Write::write_all on an unbuffered writer, the loop write!/writeln!
\* run for each piece: Err(Interrupted) is tried again, Ok(0) and any other
\* Err end the loop with an error and leave the bytes already taken in place.
RECURSIVE raw_write_all(_, _, _)
raw_write_all(dev, data, env) ==
    IF data = <<>> THEN [dev |-> dev, rest |-> <<>>, ok |-> TRUE, env |-> env]
    ELSE IF env.intr > 0
        THEN raw_write_all(dev, data, [env EXCEPT !.intr = env.intr - 1])
    ELSE IF env.cap = 0
        THEN [dev |-> dev, rest |-> data, ok |-> FALSE, env |-> env]
    ELSE LET lim == IF env.cap = NoLimit THEN Len(data) ELSE Min2(env.cap, Len(data))
             k   == Min2(env.chunk, lim)
             cap == IF env.cap = NoLimit THEN NoLimit ELSE env.cap - k
         IN  raw_write_all(dev \o Take(data, k), Drop(data, k),
                           [env EXCEPT !.cap = cap])

(***************************************************************************)
(* Writers.  A writer is [kind, buf, dev]: dev holds the bytes delivered,  *)
(* buf the bytes accepted and not yet delivered.  The process-wide output  *)
(* is line buffered (kind "line"); an explicit sink and the process-wide   *)
(* error stream are unbuffered (kind "raw", buf always empty).             *)
(***************************************************************************)
RawWriter(bytes) == [kind |-> "raw", buf |-> <<>>, dev |-> bytes]
LineWriter(bytes) == [kind |-> "line", buf |-> <<>>, dev |-> bytes]

\* everything the writer has been sent, delivered or still buffered
Contents(w) == w.dev \o w.buf

\* index of the last line terminator of s, 0 when there is none
LastNL(s) == IF HasNL(s) THEN CHOOSE i \in 1..Len(s) :
                                  s[i] = NL /\ \A j \in (i + 1)..Len(s) : s[j] # NL
             ELSE 0

\* Mutant of line_write_all: a line is sent to the device without the text
\* buffered before it.
line_write_all_forget(w, data, env) ==
    IF ~HasNL(data)
    THEN [w |-> [w EXCEPT !.buf = w.buf \o data], ok |-> TRUE, env |-> env]
    ELSE LET i == LastNL(data)
             r == raw_write_all(w.dev, Take(data, i), env)
         IN  [w |-> [w EXCEPT !.dev = r.dev,
                               !.buf = IF r.ok THEN Drop(data, i) ELSE <<>>],
              ok |-> r.ok, env |-> r.env]

\* write_all on the line-buffered stdout: text without a terminator is only
\* buffered; otherwise the buffer and the text up to its last terminator go
\* to the device and the tail is buffered.  When the device fails, what it
\* did not take stays buffered only if it went through the buffer.
line_write_all(w, data, env) ==
    IF ~HasNL(data)
    THEN [w |-> [w EXCEPT !.buf = w.buf \o data], ok |-> TRUE, env |-> env]
    ELSE LET i == LastNL(data)
             r == raw_write_all(w.dev, w.buf \o Take(data, i), env)
         IN  IF r.ok
             THEN [w |-> [w EXCEPT !.dev = r.dev, !.buf = Drop(data, i)],
                   ok |-> TRUE, env |-> r.env]
             ELSE [w |-> [w EXCEPT !.dev = r.dev,
                                   !.buf = IF w.buf = <<>> THEN <<>> ELSE r.rest],
                   ok |-> FALSE, env |-> r.env]

write_all(w, data, env) ==
    IF w.kind = "line" THEN line_write_all(w, data, env)
    ELSE LET r == raw_write_all(w.dev, data, env)
         IN  [w |-> [w EXCEPT !.dev = r.dev], ok |-> r.ok, env |-> r.env]

\* Write::write_fmt: the pieces of the formatted text are written in order,
\* each with write_all, and the first error ends it.
RECURSIVE write_fmt(_, _, _)
write_fmt(w, pieces, env) ==
    IF pieces = <<>> THEN [w |-> w, ok |-> TRUE, env |-> env]
    ELSE LET r == write_all(w, Head(pieces), env)
         IN  IF r.ok THEN write_fmt(r.w, Tail(pieces), r.env) ELSE r

\* Mutant of writer_flush: the buffer is delivered and not emptied.
writer_flush_keep(w, env, fl) ==
    IF w.kind = "line"
    THEN LET r == raw_write_all(w.dev, w.buf, env)
         IN  [w |-> [w EXCEPT !.dev = r.dev], ok |-> r.ok]
    ELSE [w |-> w, ok |-> fl]

\* Write::flush: the line-buffered stdout delivers its buffer (the raw stdout
\* handle's own flush cannot fail); an unbuffered writer has nothing to deliver
\* and answers as its device does (fl).
writer_flush(w, env, fl) ==
    IF w.kind = "line"
    THEN LET r == raw_write_all(w.dev, w.buf, env)
         IN  [w |-> [w EXCEPT !.dev = r.dev, !.buf = r.rest], ok |-> r.ok]
    ELSE [w |-> w, ok |-> fl]

(***************************************************************************)
(* Readers.  One call's reader behaviour is renv = [failAt, chunk, intr]:  *)
(* the read() call made after failAt bytes were delivered returns an error *)
(* (NoFail: none does).                                                    *)
(***************************************************************************)
NoFail == 0 - 1
FailAts == {NoFail, 0, 1, 2}
REnvs == {[failAt |-> f, chunk |-> p.chunk, intr |-> p.intr] :
              f \in FailAts, p \in Paces}

\* Read::read_to_end, the loop inside read_to_string: Err(Interrupted) is
\* tried again, Ok(0) is end-of-input, any other Err ends the loop.
RECURSIVE read_to_end(_, _, _)
read_to_end(data, got, renv) ==
    IF renv.intr > 0
        THEN read_to_end(data, got, [renv EXCEPT !.intr = renv.intr - 1])
    ELSE IF renv.failAt = Len(got)
        THEN [got |-> got, rest |-> data, ok |-> FALSE]
    ELSE IF data = <<>>
        THEN [got |-> got, rest |-> <<>>, ok |-> TRUE]
    ELSE LET lim == IF renv.failAt = NoFail \/ renv.failAt < Len(got)
                    THEN Len(data)
                    ELSE Min2(Len(data), renv.failAt - Len(got))
             k   == Min2(renv.chunk, lim)
         IN  read_to_end(Drop(data, k), got \o Take(data, k), renv)

\* Read::read_to_string into an empty String: the bytes read are kept only
\* if they are valid text; a read error or invalid bytes give Err.
read_to_string(data, renv) ==
    LET r == read_to_end(data, <<>>, renv)
    IN  [ok   |-> r.ok /\ IsText(r.got),
         s    |-> IF IsText(r.got) THEN r.got ELSE <<>>,
         rest |-> r.rest]

(***************************************************************************)
(* Formatting.  A template is a sequence of literal bytes and holes; the   *)
(* arguments fill the holes in order (format_args!(...).to_string()).      *)
(***************************************************************************)
HOLE == "{}"
Templates == {<<"a", HOLE>>, <<HOLE, NL>>}
ArgTexts == {s \in Texts : Len(s) <= 1}

RECURSIVE Format(_, _)
Format(tmpl, args) ==
    IF tmpl = <<>> THEN <<>>
    ELSE IF Head(tmpl) = HOLE THEN Head(args) \o Format(Tail(tmpl), Tail(args))
    ELSE <<Head(tmpl)>> \o Format(Tail(tmpl), args)

(***************************************************************************)
(* State.                                                                  *)
(*   out, err, stdin   the process-wide output, error and input streams    *)
(*   sink, rd          the caller's explicit writer and reader             *)
(*   status            "running", or "aborted" once a call has panicked    *)
(*   pc                position inside prompt_aux ("idle" outside it)      *)
(*   last              the current or latest call: operation, entry point, *)
(*                     argument, and its writer and reader as they were    *)
(*                     when it was made                                    *)
(*   ret               what the latest call returned                       *)
(*   trace             the write/flush/read steps the call has made, each  *)
(*                     with its result                                     *)
(*   n                 calls made so far                                   *)
(* stdin holds the input that has arrived and is unread; what arrives      *)
(* later, up to end-of-input, is chosen when a call reads it.              *)
(***************************************************************************)
NoCall == [op |-> "none", macro |-> "none", arg |-> <<>>, fmt |-> <<>>,
           w0 |-> <<>>, d0 |-> <<>>, cap |-> NoLimit, r0 |-> <<>>,
           failAt |-> NoFail]
NoRet == [kind |-> "none", text |-> <<>>]
Unit == [kind |-> "unit", text |-> <<>>]
Ok(t) == [kind |-> "Ok", text |-> t]
ErrRet == [kind |-> "Err", text |-> <<>>]
Str(t) == [kind |-> "String", text |-> t]
Ev(step, ok) == [step |-> step, ok |-> ok]

Init ==
    \* the process may have printed before: its output holds nothing, or
    \* text waiting for its line terminator
    /\ out \in {[LineWriter(<<>>) EXCEPT !.buf = b] : b \in {<<>>, <<"a">>}}
    /\ err = RawWriter(<<>>)
    /\ sink = RawWriter(<<>>)
    /\ stdin = <<>>
    /\ rd = <<>>
    /\ status = "running"
    /\ pc = "idle"
    /\ last = NoCall
    /\ ret = NoRet
    /\ trace = <<>>
    /\ n = 0

\* a call can be made: nothing has panicked, no call is in progress
CanCall == status = "running" /\ pc = "idle" /\ last.op = "none" /\ n < MaxCalls
\* a call has returned to its caller
Returned == status = "running" /\ pc = "idle" /\ last.op # "none"

\* Mutant of unwrap: the error is dropped and the call goes on.
unwrap_ignore(ok) == "running"

\* .expect(..) / .unwrap() / the panic inside print!, println!, eprintln!
unwrap(ok) == IF ok THEN "running" ELSE "aborted"

(***************************************************************************)
(* The Io trait's default bodies.  Each takes the call record c the entry  *)
(* point made (the trait method itself, or a macro).                       *)
(***************************************************************************)
\* print!("{}", output.as_ref())
print_body(output, env, c) ==
    LET r == write_fmt(out, <<output>>, env)
    IN  /\ CanCall
        /\ out' = r.w
        /\ status' = unwrap(r.ok)
        /\ ret' = IF r.ok THEN Unit ELSE NoRet
        /\ trace' = <<Ev("write", r.ok)>>
        /\ last' = [c EXCEPT !.w0 = Contents(out), !.d0 = out.dev]
        /\ n' = n + 1
        /\ UNCHANGED <<err, stdin, sink, rd, pc>>

\* std::io::stdout().flush().unwrap()
flush_body(env, c) ==
    LET r == writer_flush(out, env, TRUE)
    IN  /\ CanCall
        /\ out' = r.w
        /\ status' = unwrap(r.ok)
        /\ ret' = IF r.ok THEN Unit ELSE NoRet
        /\ trace' = <<Ev("flush", r.ok)>>
        /\ last' = [c EXCEPT !.w0 = Contents(out), !.d0 = out.dev]
        /\ n' = n + 1
        /\ UNCHANGED <<err, stdin, sink, rd, pc>>

\* println!("{}", output.as_ref())
println_body(output, env, c) ==
    LET r == write_fmt(out, <<output, <<NL>>>>, env)
    IN  /\ CanCall
        /\ out' = r.w
        /\ status' = unwrap(r.ok)
        /\ ret' = IF r.ok THEN Unit ELSE NoRet
        /\ trace' = <<Ev("write", r.ok)>>
        /\ last' = [c EXCEPT !.w0 = Contents(out), !.d0 = out.dev]
        /\ n' = n + 1
        /\ UNCHANGED <<err, stdin, sink, rd, pc>>

\* Mutant of write_body: the text is echoed to the process-wide output too.
write_body_echo(output, env, c) ==
    LET r == write_fmt(sink, <<output>>, env)
    IN  /\ CanCall
        /\ sink' = r.w
        /\ out' = [out EXCEPT !.buf = out.buf \o output]
        /\ ret' = IF r.ok THEN Ok(<<>>) ELSE ErrRet
        /\ trace' = <<Ev("write", r.ok)>>
        /\ last' = [c EXCEPT !.w0 = Contents(sink), !.d0 = sink.dev,
                             !.cap = env.cap]
        /\ n' = n + 1
        /\ UNCHANGED <<err, stdin, rd, status, pc>>

\* write!(writer, "{}", output.as_ref())
write_body(output, env, c) ==
    LET r == write_fmt(sink, <<output>>, env)
    IN  /\ CanCall
        /\ sink' = r.w
        /\ ret' = IF r.ok THEN Ok(<<>>) ELSE ErrRet
        /\ trace' = <<Ev("write", r.ok)>>
        /\ last' = [c EXCEPT !.w0 = Contents(sink), !.d0 = sink.dev,
                             !.cap = env.cap]
        /\ n' = n + 1
        /\ UNCHANGED <<out, err, stdin, rd, status, pc>>

\* Mutant of writeln_body: write! in place of writeln!, no terminator.
writeln_body_no_nl(output, env, c) == write_body(output, env, c)

\* writeln!(writer, "{}", output.as_ref())
writeln_body(output, env, c) ==
    LET r == write_fmt(sink, <<output, <<NL>>>>, env)
    IN  /\ CanCall
        /\ sink' = r.w
        /\ ret' = IF r.ok THEN Ok(<<>>) ELSE ErrRet
        /\ trace' = <<Ev("write", r.ok)>>
        /\ last' = [c EXCEPT !.w0 = Contents(sink), !.d0 = sink.dev,
                             !.cap = env.cap]
        /\ n' = n + 1
        /\ UNCHANGED <<out, err, stdin, rd, status, pc>>

\* eprintln!("{}", output.as_ref())
eprintln_body(output, env, c) ==
    LET r == write_fmt(err, <<output, <<NL>>>>, env)
    IN  /\ CanCall
        /\ err' = r.w
        /\ status' = unwrap(r.ok)
        /\ ret' = IF r.ok THEN Unit ELSE NoRet
        /\ trace' = <<Ev("write", r.ok)>>
        /\ last' = [c EXCEPT !.w0 = Contents(err), !.d0 = err.dev]
        /\ n' = n + 1
        /\ UNCHANGED <<out, stdin, sink, rd, pc>>

\* Mutant of read_aux_result: the text read so far is handed back as a
\* success whatever read_to_string answered.
read_aux_result_partial(r) == Ok(r.s)

\* read_aux: let mut s = String::new(); reader.read_to_string(&mut s)?; Ok(s)
read_aux_result(r) == IF r.ok THEN Ok(r.s) ELSE ErrRet

\* read_aux(std::io::stdin().lock()); typed is the input still to arrive
read_body(typed, renv, c) ==
    LET r == read_to_string(stdin \o typed, renv)
    IN  /\ CanCall
        /\ stdin' = r.rest
        /\ ret' = read_aux_result(r)
        /\ trace' = <<Ev("read", r.ok)>>
        /\ last' = [c EXCEPT !.r0 = stdin \o typed, !.failAt = renv.failAt]
        /\ n' = n + 1
        /\ UNCHANGED <<out, err, sink, rd, status, pc>>

\* read_aux(reader) on a reader of the caller
read_aux_body(reader, renv, c) ==
    LET r == read_to_string(reader, renv)
    IN  /\ CanCall
        /\ rd' = r.rest
        /\ ret' = read_aux_result(r)
        /\ trace' = <<Ev("read", r.ok)>>
        /\ last' = [c EXCEPT !.r0 = reader, !.failAt = renv.failAt]
        /\ n' = n + 1
        /\ UNCHANGED <<out, err, stdin, sink, status, pc>>

\* prompt_aux(std::io::stdin().lock(), std::io::stdout(), question.as_ref()):
\* the call enters prompt_aux with the process-wide streams
prompt_body(question, c) ==
    /\ CanCall
    /\ pc' = "write"
    /\ last' = [c EXCEPT !.w0 = Contents(out), !.d0 = out.dev, !.r0 = stdin]
    /\ ret' = NoRet
    /\ trace' = <<>>
    /\ n' = n + 1
    /\ UNCHANGED <<out, err, stdin, sink, rd, status>>

\* prompt_aux(reader, writer, question) on a reader and a writer of the caller
prompt_aux_body(reader, question, c) ==
    /\ CanCall
    /\ pc' = "write"
    /\ rd' = reader
    /\ last' = [c EXCEPT !.w0 = Contents(sink), !.d0 = sink.dev, !.r0 = reader]
    /\ ret' = NoRet
    /\ trace' = <<>>
    /\ n' = n + 1
    /\ UNCHANGED <<out, err, stdin, sink, status>>

(***************************************************************************)
(* prompt_aux, one action per statement.  Its writer and reader are the    *)
(* process-wide streams when Io::prompt made the call, the caller's sink   *)
(* and reader otherwise.                                                   *)
(***************************************************************************)
InPrompt(at) == status = "running" /\ pc = at
OnStd == last.op = "prompt"
PromptWriter == IF OnStd THEN out ELSE sink
PromptReader == IF OnStd THEN stdin ELSE rd
SetWriter(w) == IF OnStd THEN out' = w /\ UNCHANGED sink
                ELSE sink' = w /\ UNCHANGED out
SetReader(r) == IF OnStd THEN stdin' = r /\ UNCHANGED rd
                ELSE rd' = r /\ UNCHANGED stdin

\* where prompt_aux goes after a statement: on to the next one, or nowhere
\* (the panic leaves it at the statement that failed)
next_pc(ok, to) == IF ok THEN to ELSE pc

\* Mutant of prompt_aux_write: a failed write is tried again.
prompt_aux_write_retry ==
    \E env \in Envs :
        LET r == write_fmt(PromptWriter, <<last.arg>>, env)
        IN  /\ InPrompt("write")
            /\ SetWriter(r.w)
            /\ trace' = Append(trace, Ev("write", r.ok))
            /\ pc' = next_pc(r.ok, "flush")
            /\ UNCHANGED <<err, stdin, rd, last, ret, n, status>>

\* write!(&mut writer, "{}", question).expect("Unable to write")
prompt_aux_write ==
    \E env \in Envs :
        LET r == write_fmt(PromptWriter, <<last.arg>>, env)
        IN  /\ InPrompt("write")
            /\ SetWriter(r.w)
            /\ trace' = Append(trace, Ev("write", r.ok))
            /\ status' = unwrap(r.ok)
            /\ pc' = next_pc(r.ok, "flush")
            /\ UNCHANGED <<err, stdin, rd, last, ret, n>>

\* writer.flush().unwrap()
prompt_aux_flush ==
    \E env \in (IF OnStd THEN Envs ELSE {CHOOSE e \in Envs : TRUE}),
       fl \in (IF OnStd THEN {TRUE} ELSE BOOLEAN) :
        LET r == writer_flush(PromptWriter, env, fl)
        IN  /\ InPrompt("flush")
            /\ SetWriter(r.w)
            /\ trace' = Append(trace, Ev("flush", r.ok))
            /\ status' = unwrap(r.ok)
            /\ pc' = next_pc(r.ok, "read")
            /\ UNCHANGED <<err, stdin, rd, last, ret, n>>

\* Mutant of prompt_aux_result: a trailing line terminator is trimmed.
prompt_aux_result_trim(r) ==
    IF ~r.ok THEN NoRet
    ELSE IF r.s # <<>> /\ r.s[Len(r.s)] = NL THEN Str(Take(r.s, Len(r.s) - 1))
    ELSE Str(r.s)

\* what prompt_aux hands back: the String read_to_string filled
prompt_aux_result(r) == IF r.ok THEN Str(r.s) ELSE NoRet

\* let mut s = String::new();
\* reader.read_to_string(&mut s).expect("Unable to read"); s
prompt_aux_read ==
    \E renv \in REnvs, typed \in (IF OnStd THEN Inputs ELSE {<<>>}) :
        LET data == PromptReader \o typed
            r == read_to_string(data, renv)
        IN  /\ InPrompt("read")
            /\ SetReader(r.rest)
            /\ trace' = Append(trace, Ev("read", r.ok))
            /\ status' = unwrap(r.ok)
            /\ ret' = prompt_aux_result(r)
            /\ pc' = next_pc(r.ok, "idle")
            /\ last' = [last EXCEPT !.r0 = data, !.failAt = renv.failAt]
            /\ UNCHANGED <<out, err, sink, n>>

(***************************************************************************)
(* Entry points: the trait methods called directly, the two helpers, and   *)
(* the macros, which format their arguments and call a trait method.       *)
(***************************************************************************)
Direct(op, arg) == [NoCall EXCEPT !.op = op, !.arg = arg]
Macro(m, op, tmpl, args) ==
    [NoCall EXCEPT !.op = op, !.macro = m, !.arg = Format(tmpl, args),
                   !.fmt = <<tmpl, args>>]

Holes(tmpl) == Cardinality({i \in 1..Len(tmpl) : tmpl[i] = HOLE})
ArgsOf(tmpl) == [1..Holes(tmpl) -> ArgTexts]

Io_print == \E output \in Texts, env \in Envs :
    print_body(output, env, Direct("print", output))
Io_flush == \E env \in Envs :
    flush_body(env, Direct("flush", <<>>))
Io_println == \E output \in Texts, env \in Envs :
    println_body(output, env, Direct("println", output))
Io_write == \E output \in Texts, env \in Envs :
    write_body(output, env, Direct("write", output))
Io_writeln == \E output \in Texts, env \in Envs :
    writeln_body(output, env, Direct("writeln", output))
Io_eprintln == \E output \in Texts, env \in Envs :
    eprintln_body(output, env, Direct("eprintln", output))
Io_read == \E typed \in Inputs, renv \in REnvs :
    read_body(typed, renv, Direct("read", <<>>))
Io_prompt == \E question \in Texts :
    prompt_body(question, Direct("prompt", question))
read_aux == \E reader \in Inputs, renv \in REnvs :
    read_aux_body(reader, renv, Direct("read_aux", <<>>))
prompt_aux == \E reader \in Inputs, question \in Texts :
    prompt_aux_body(reader, question, Direct("prompt_aux", question))

\* display!(Io) => Io::print("")
display_empty == \E env \in Envs :
    print_body(<<>>, env, Macro("display", "print", <<>>, <<>>))
\* Mutant of display_to: the result of Io::write is dropped and success
\* handed back.
display_to_swallow(tmpl, args, env) ==
    LET r == write_fmt(sink, <<Format(tmpl, args)>>, env)
    IN  /\ CanCall
        /\ sink' = r.w
        /\ ret' = Ok(<<>>)
        /\ trace' = <<Ev("write", r.ok)>>
        /\ last' = [Macro("display", "write", tmpl, args) EXCEPT
                        !.w0 = Contents(sink), !.d0 = sink.dev, !.cap = env.cap]
        /\ n' = n + 1
        /\ UNCHANGED <<out, err, stdin, rd, status, pc>>

\* display!(Io, w; args) => Io::write(w, format_args!(args).to_string())
display_to(tmpl, args, env) ==
    write_body(Format(tmpl, args), env, Macro("display", "write", tmpl, args))
display_w == \E tmpl \in Templates : \E args \in ArgsOf(tmpl), env \in Envs :
    display_to(tmpl, args, env)
\* display!(Io, args) => Io::print(format_args!(args).to_string())
display == \E tmpl \in Templates : \E args \in ArgsOf(tmpl), env \in Envs :
    print_body(Format(tmpl, args), env, Macro("display", "print", tmpl, args))
\* display_line!(Io) => Io::println("")
display_line_empty == \E env \in Envs :
    println_body(<<>>, env, Macro("display_line", "println", <<>>, <<>>))
\* display_line!(Io, w; args) => Io::writeln(w, format_args!(args).to_string())
display_line_w == \E tmpl \in Templates : \E args \in ArgsOf(tmpl), env \in Envs :
    writeln_body(Format(tmpl, args), env,
                 Macro("display_line", "writeln", tmpl, args))
\* display_line!(Io, args) => Io::println(format_args!(args).to_string())
display_line == \E tmpl \in Templates : \E args \in ArgsOf(tmpl), env \in Envs :
    println_body(Format(tmpl, args), env,
                 Macro("display_line", "println", tmpl, args))
\* edisplay!(Io, args) => Io::eprintln(format_args!(args).to_string())
edisplay == \E tmpl \in Templates : \E args \in ArgsOf(tmpl), env \in Envs :
    eprintln_body(Format(tmpl, args), env,
                  Macro("edisplay", "eprintln", tmpl, args))
\* prompt!(Io, args) => Io::prompt(format!("{}", format_args!(args)))
prompt == \E tmpl \in Templates : \E args \in ArgsOf(tmpl) :
    prompt_body(Format(tmpl, args), Macro("prompt", "prompt", tmpl, args))

\* the call is over: its caller has the result, the reader it passed is gone
call_returns ==
    /\ Returned
    /\ last' = NoCall
    /\ ret' = NoRet
    /\ trace' = <<>>
    /\ rd' = <<>>
    /\ UNCHANGED <<out, err, stdin, sink, status, pc, n>>

Next ==
    \/ Io_print \/ Io_flush \/ Io_println \/ Io_write \/ Io_writeln
    \/ Io_eprintln \/ Io_read \/ Io_prompt
    \/ read_aux \/ prompt_aux
    \/ prompt_aux_write \/ prompt_aux_flush \/ prompt_aux_read
    \/ display_empty \/ display_w \/ display
    \/ display_line_empty \/ display_line_w \/ display_line
    \/ edisplay \/ prompt
    \/ call_returns

Spec == Init /\ [][Next]_vars

(***************************************************************************)
(* Properties                                                              *)
(***************************************************************************)
InPromptCall == last.op \in {"prompt", "prompt_aux"}
PromptSteps == <<"write", "flush", "read">>
\* the call has come back to its caller with a value
CameBack == status = "running" /\ pc = "idle"
\* the bytes a write / writeln call asks its sink to take
Requested == IF last.op = "writeln" THEN last.arg \o <<NL>> ELSE last.arg
\* the reader of the call reports an error before end-of-input
ReadFails == last.failAt # NoFail /\ last.failAt <= Len(last.r0)

\* C1: prompt_aux writes the question, then flushes the writer, then drains
\* the reader, in that order: the reader is untouched until the read step,
\* and the read step is made only after the whole question has been written
\* and delivered; when it returns, the writer has gained exactly the question
\* and the result is the reader's whole content, untrimmed.
C1_PromptOrder ==
    InPromptCall =>
        /\ Len(trace) <= 3
        /\ \A i \in 1..Len(trace) : trace[i].step = PromptSteps[i]
        /\ Len(trace) < 3 => PromptReader = last.r0
        /\ Len(trace) = 3 =>
               /\ trace[1].ok /\ trace[2].ok
               /\ PromptWriter.dev = last.w0 \o last.arg
               /\ PromptWriter.buf = <<>>
        /\ CameBack =>
               /\ Len(trace) = 3
               /\ Contents(PromptWriter) = last.w0 \o last.arg
               /\ ret = Str(last.r0)
               /\ PromptReader = <<>>

\* prompt_aux(reader "a\n", sink, question "a") has returned "a\n", the
\* terminator kept, and the sink holds "a"
C1_Witness ==
    /\ last.op = "prompt_aux" /\ CameBack
    /\ last.arg = <<"a">> /\ last.r0 = <<"a", NL>>
    /\ sink.dev = <<"a">> /\ ret = Str(<<"a", NL>>)

\* the sink of the call takes every byte it is asked to take
AcceptsAll == last.cap = NoLimit \/ last.cap >= Len(Requested)

\* C2: on a sink that accepts every write, write returns success and leaves
\* the sink holding its earlier content followed by exactly T, and writeln
\* the same followed by exactly one terminator.
C2_WriteExact ==
    (last.op \in {"write", "writeln"} /\ AcceptsAll) =>
        /\ ret = Ok(<<>>)
        /\ sink.buf = <<>>
        /\ last.op = "write" => sink.dev = last.w0 \o last.arg
        /\ last.op = "writeln" => sink.dev = last.w0 \o last.arg \o <<NL>>

\* writeln of a two-byte character onto a sink that already holds content
C2_Witness ==
    /\ last.op = "writeln" /\ last.cap = NoLimit
    /\ last.w0 # <<>> /\ last.arg = <<"L", "C">>
    /\ sink.dev = last.w0 \o <<"L", "C", NL>>

\* C3: read_aux never aborts; it returns the reader's whole content when the
\* reader reaches end-of-input without error and the bytes are text (the
\* empty string for an empty reader), and a failure value carrying no text
\* when the read fails or the bytes are not text.
C3_ReadAux ==
    last.op \in {"read", "read_aux"} =>
        /\ status = "running" /\ pc = "idle"
        /\ (~ReadFails /\ IsText(last.r0)) => ret = Ok(last.r0)
        /\ (ReadFails \/ ~IsText(last.r0)) => ret = ErrRet

\* read_aux on a reader whose bytes are not text, read without error
C3_Witness ==
    /\ last.op = "read_aux" /\ last.r0 = <<"a", "C">>
    /\ last.failAt = NoFail /\ ret = ErrRet

\* C4: in prompt / prompt_aux a failing step is fatal: the call aborts, hands
\* back no text, and makes no step after the failing one (the reader is
\* untouched when the write or the flush fails); input that is not text is
\* such a failure too.
C4_PromptFatal ==
    InPromptCall =>
        /\ \A i \in 1..Len(trace) :
               ~trace[i].ok =>
                   /\ status = "aborted"
                   /\ ret = NoRet
                   /\ i = Len(trace)
                   /\ i < 3 => PromptReader = last.r0
        /\ (Len(trace) = 3 /\ (ReadFails \/ ~IsText(last.r0))) =>
               ~trace[3].ok /\ status = "aborted"
        /\ status = "aborted" => ret = NoRet /\ ~trace[Len(trace)].ok

\* prompt has aborted on input that was read without error and is not text
C4_Witness ==
    /\ last.op = "prompt" /\ status = "aborted"
    /\ Len(trace) = 3 /\ last.failAt = NoFail /\ ~IsText(last.r0)

\* a step that makes a call
CallStep == n' = n + 1

\* C5: a write or writeln call on an explicit sink, successful or not,
\* leaves the process-wide output and error streams and the unread
\* process-wide input as they were, and does not abort; only the sink
\* changes.
C5_SinkIsolation ==
    [][(CallStep /\ last'.op \in {"write", "writeln"}) =>
           /\ out' = out /\ err' = err /\ stdin' = stdin
           /\ rd' = rd /\ status' = status /\ pc' = pc]_vars

\* a writeln on the sink has failed while the process-wide output holds
\* delivered bytes
C5_Witness ==
    /\ last.op = "writeln" /\ ret = ErrRet /\ sink.dev # <<>>
    /\ n = 2 /\ out.dev # <<>>

\* C6: for text T without a line terminator, println(T) sends the
\* process-wide output exactly T and one terminator after what it was sent
\* before, and print(T) exactly T.
C6_PrintExact ==
    (last.op \in {"print", "println"} /\ status = "running" /\ ~HasNL(last.arg)) =>
        /\ last.op = "print" => Contents(out) = last.w0 \o last.arg
        /\ last.op = "println" => Contents(out) = last.w0 \o last.arg \o <<NL>>

\* println of a two-byte character after "a" had been printed
C6_Witness ==
    /\ last.op = "println" /\ status = "running"
    /\ last.w0 = <<"a">> /\ last.arg = <<"L", "C">>
    /\ Contents(out) = <<"a", "L", "C", NL>>

\* C7: a flush that succeeds leaves nothing buffered, having delivered what
\* was buffered; a flush made while nothing is buffered delivers nothing and
\* changes nothing; and only print, println, prompt and flush touch the
\* process-wide output.  So flushes after the first, with no write between
\* them, add no bytes.
C7_FlushIdempotent ==
    [][/\ (CallStep /\ last'.op = "flush") =>
              /\ status' = "running" =>
                     out'.buf = <<>> /\ out'.dev = Contents(out)
              /\ out.buf = <<>> => out' = out /\ status' = status
              /\ err' = err /\ stdin' = stdin /\ sink' = sink /\ rd' = rd
       /\ out' # out =>
              \/ CallStep /\ last'.op \in {"print", "println", "flush"}
              \/ last.op = "prompt" /\ last'.op = "prompt"]_vars

\* a flush made when "a" had already been delivered and nothing was buffered
C7_Witness ==
    /\ last.op = "flush" /\ n = 2 /\ status = "running"
    /\ last.d0 = <<"a">> /\ last.w0 = <<"a">>
    /\ out.dev = <<"a">> /\ out.buf = <<>>

\* the trait method a macro expands to
ExpandsTo(m) ==
    CASE m = "display"      -> {"print", "write"}
      [] m = "display_line" -> {"println", "writeln"}
      [] m = "edisplay"     -> {"eprintln"}
      [] m = "prompt"       -> {"prompt"}
      [] OTHER              -> {}

\* C8: a call through a macro is a call of the trait method the macro names
\* on the formatted text, once, with that method's effect and result.
C8_MacroForwards ==
    [][(CallStep /\ last'.macro # "none") =>
           LET F == Format(last'.fmt[1], last'.fmt[2])
               c == [Direct(last'.op, F) EXCEPT !.macro = last'.macro,
                                                !.fmt = last'.fmt]
           IN  /\ last'.arg = F
               /\ last'.op \in ExpandsTo(last'.macro)
               /\ last'.op = "print" => \E e \in Envs : print_body(F, e, c)
               /\ last'.op = "println" => \E e \in Envs : println_body(F, e, c)
               /\ last'.op = "write" => \E e \in Envs : write_body(F, e, c)
               /\ last'.op = "writeln" => \E e \in Envs : writeln_body(F, e, c)
               /\ last'.op = "eprintln" => \E e \in Envs : eprintln_body(F, e, c)
               /\ last'.op = "prompt" => prompt_body(F, c)]_vars

\* display!(Io, w; "a{}", x) has handed back the failure of Io::write
C8_Witness ==
    /\ last.macro = "display" /\ last.op = "write"
    /\ last.fmt[1] = <<"a", HOLE>> /\ ret = ErrRet

\* C9: no step is retried: within one call each of write, flush and read is
\* made at most once, a failed step is the call's last, and the call then
\* ends as a failure result for write, writeln, read and read_aux and as an
\* abort for the others.
C9_NoRetry ==
    /\ \A i, j \in 1..Len(trace) : i < j => trace[i].step # trace[j].step
    /\ \A i \in 1..Len(trace) : ~trace[i].ok => i = Len(trace)
    /\ (trace # <<>> /\ ~trace[Len(trace)].ok) =>
           IF last.op \in {"write", "writeln", "read", "read_aux"}
           THEN ret = ErrRet /\ status = "running" /\ pc = "idle"
           ELSE ret = NoRet /\ status = "aborted"

\* prompt_aux has aborted at its flush, after the write succeeded
C9_Witness ==
    /\ last.op = "prompt_aux" /\ status = "aborted"
    /\ trace = <<Ev("write", TRUE), Ev("flush", FALSE)>>

\* C10: after write or writeln returns, the sink holds what it held followed
\* by a prefix of the requested bytes, and the result is success only if the
\* prefix is all of them.
C10_PartialWrite ==
    last.op \in {"write", "writeln"} =>
        /\ ret \in {Ok(<<>>), ErrRet}
        /\ sink.buf = <<>>
        /\ \E k \in 0..Len(Requested) :
               /\ sink.dev = last.w0 \o Take(Requested, k)
               /\ ret = Ok(<<>>) => k = Len(Requested)

\* writeln has failed after the sink took the text and before the terminator
C10_Witness ==
    /\ last.op = "writeln" /\ ret = ErrRet
    /\ last.arg = <<"a">> /\ sink.dev = last.w0 \o <<"a">>

====
